---- MODULE Spec2Model ----
(***************************************************************************)
(* A model of work_flow_1.py: the resume evaluation pipeline of            *)
(* ResumeEvaluator (read_file_content, extract_text_from_files,            *)
(* generate_prompt, call_local_model, _get_default_evaluation, evaluate)   *)
(* and of the module's start-up (top-level imports, main).                 *)
(*                                                                         *)
(* Text is modelled character by character: a text is a sequence of        *)
(* one-character strings.  The backtick cannot be written inside a TLA+    *)
(* string, so the token BT stands for that one character.  The Chinese     *)
(* literals of the source are replaced by short English renderings; only   *)
(* their identity and their non-emptiness matter to the properties.        *)
(***************************************************************************)
EXTENDS Integers, Sequences, FiniteSets, TLC

VARIABLES
    libs,         \* the importable third-party packages of the interpreter
    jd,           \* the file behind self.jd_path
    resume,       \* the file behind self.resume_path
    pc,           \* the position of the program
    jd_text,      \* evaluate's local jd_text
    resume_text,  \* evaluate's local resume_text
    prompt,       \* evaluate's local prompt
    response,     \* what ollama.generate did in this run
    result,       \* the value a call returned
    exc,          \* the exception a call raised
    log           \* the calls made so far, in order

vars == <<libs, jd, resume, pc, jd_text, resume_text, prompt, response, result, exc, log>>

(***************************************************************************)
(* Bounds of the model.                                                    *)
(***************************************************************************)
\* paragraphs (docx), pages (pdf) or lines (text) of a document
MaxUnits == 2
\* whitespace characters put around a model response and inside its fences
MaxPad == 1

(***************************************************************************)
(* Characters and the str methods the source uses.                         *)
(***************************************************************************)
Chars(s) == [i \in 1..Len(s) |-> SubSeq(s, i, i)]

BT == "BT"

\* the literal "```" of lines 179 and 181
Fence == <<BT, BT, BT>>

\* the literal "```json" of line 177
FenceJson == Fence \o Chars("json")

\* the characters str.strip() removes that occur in the model's texts
StripChars == {" ", "\n", "\t", "\r"}

RECURSIVE lstrip(_)
lstrip(s) == IF s # <<>> /\ Head(s) \in StripChars THEN lstrip(Tail(s)) ELSE s

RECURSIVE rstrip(_)
rstrip(s) ==
    IF s # <<>> /\ s[Len(s)] \in StripChars
    THEN rstrip(SubSeq(s, 1, Len(s) - 1))
    ELSE s

strip(s) == rstrip(lstrip(s))

startswith(s, p) == Len(s) >= Len(p) /\ SubSeq(s, 1, Len(p)) = p

endswith(s, p) == Len(s) >= Len(p) /\ SubSeq(s, Len(s) - Len(p) + 1, Len(s)) = p

\* s[n:]
SliceFrom(s, n) == SubSeq(s, n + 1, Len(s))

\* s[:-n], n > 0
SliceDropLast(s, n) == SubSeq(s, 1, Len(s) - n)

RECURSIVE Concat(_)
Concat(cs) == IF cs = <<>> THEN "" ELSE Head(cs) \o Concat(Tail(cs))

(***************************************************************************)
(* JSON values, as json.loads builds them: int, str, list, dict and the    *)
(* literals true, false, null.  A dict is a function from its keys; a key  *)
(* is kept as a TLA+ string so that a dict with fixed keys is a record.    *)
(***************************************************************************)
JInt(n) == [t |-> "int", v |-> n]
JStr(cs) == [t |-> "str", v |-> cs]
JArr(xs) == [t |-> "arr", v |-> xs]
JObj(f) == [t |-> "obj", v |-> f]
JLit(name) == [t |-> "lit", v |-> name]

EmptyDict == <<>>

\* d[key] = val, the last occurrence of a key wins
DictSet(d, key, val) ==
    [x \in (DOMAIN d) \cup {key} |-> IF x = key THEN val ELSE d[x]]

(***************************************************************************)
(* json.loads: a recursive-descent parser of the JSON grammar over         *)
(* objects, arrays, strings, integers and literals.  The responses of      *)
(* the model's input sets hold no backslash, no fraction and no exponent.  *)
(***************************************************************************)
ParseFail(i) == [ok |-> FALSE, val |-> JLit("null"), pos |-> i]
ParseOk(v, i) == [ok |-> TRUE, val |-> v, pos |-> i]

At(s, i) == IF i >= 1 /\ i <= Len(s) THEN s[i] ELSE "EOF"

\* json's WHITESPACE: [ \t\n\r]*
JsonWs == {" ", "\t", "\n", "\r"}

RECURSIVE SkipWs(_, _)
SkipWs(s, i) == IF At(s, i) \in JsonWs THEN SkipWs(s, i + 1) ELSE i

DigitVal ==
    "0" :> 0 @@ "1" :> 1 @@ "2" :> 2 @@ "3" :> 3 @@ "4" :> 4 @@
    "5" :> 5 @@ "6" :> 6 @@ "7" :> 7 @@ "8" :> 8 @@ "9" :> 9

IsDigit(c) == c \in DOMAIN DigitVal

RECURSIVE ScanDigits(_, _, _)
ScanDigits(s, i, acc) ==
    IF IsDigit(At(s, i))
    THEN ScanDigits(s, i + 1, acc * 10 + DigitVal[At(s, i)])
    ELSE [val |-> acc, pos |-> i]

\* -?(0|[1-9]\d*)
ParseNumber(s, i) ==
    LET neg == At(s, i) = "-"
        j == IF neg THEN i + 1 ELSE i
        r == ScanDigits(s, j, 0)
    IN  IF ~IsDigit(At(s, j)) THEN ParseFail(i)
        ELSE IF At(s, j) = "0" THEN ParseOk(JInt(0), j + 1)
        ELSE ParseOk(JInt(IF neg THEN 0 - r.val ELSE r.val), r.pos)

\* the index of the closing quote of the string whose content starts at i,
\* 0 when the string is unterminated or holds a control character (strict)
RECURSIVE ScanString(_, _)
ScanString(s, i) ==
    LET c == At(s, i)
    IN  IF c = "\"" THEN i
        ELSE IF c \in {"EOF", "\n", "\t", "\r", "\\"} THEN 0
        ELSE ScanString(s, i + 1)

\* At(s, i) is the opening quote
ParseString(s, i) ==
    LET e == ScanString(s, i + 1)
    IN  IF e = 0 THEN ParseFail(i)
        ELSE ParseOk(JStr(SubSeq(s, i + 1, e - 1)), e + 1)

MatchAt(s, i, word) ==
    /\ i + Len(word) - 1 <= Len(s)
    /\ SubSeq(s, i, i + Len(word) - 1) = Chars(word)

RECURSIVE ParseValue(_, _)
RECURSIVE ParseElements(_, _, _)
RECURSIVE ParseMembers(_, _, _)

\* i is the start of an element of an array whose earlier elements are acc
ParseElements(s, i, acc) ==
    LET r == ParseValue(s, i)
        j == SkipWs(s, r.pos)
        acc2 == Append(acc, r.val)
    IN  IF ~r.ok THEN ParseFail(i)
        ELSE IF At(s, j) = "," THEN ParseElements(s, SkipWs(s, j + 1), acc2)
        ELSE IF At(s, j) = "]" THEN ParseOk(JArr(acc2), j + 1)
        ELSE ParseFail(j)

\* i is the start of a key of an object whose earlier members are acc
ParseMembers(s, i, acc) ==
    LET k == ParseString(s, i)
        j == SkipWs(s, k.pos)
        r == ParseValue(s, SkipWs(s, j + 1))
        m == SkipWs(s, r.pos)
        acc2 == DictSet(acc, Concat(k.val.v), r.val)
    IN  IF At(s, i) # "\"" THEN ParseFail(i)
        ELSE IF ~k.ok THEN ParseFail(i)
        ELSE IF At(s, j) # ":" THEN ParseFail(j)
        ELSE IF ~r.ok THEN ParseFail(j)
        ELSE IF At(s, m) = "," THEN ParseMembers(s, SkipWs(s, m + 1), acc2)
        ELSE IF At(s, m) = "}" THEN ParseOk(JObj(acc2), m + 1)
        ELSE ParseFail(m)

ParseValue(s, i) ==
    LET c == At(s, i)
        j == SkipWs(s, i + 1)
    IN  IF c = "{" THEN
            IF At(s, j) = "}" THEN ParseOk(JObj(EmptyDict), j + 1)
            ELSE ParseMembers(s, j, EmptyDict)
        ELSE IF c = "[" THEN
            IF At(s, j) = "]" THEN ParseOk(JArr(<<>>), j + 1)
            ELSE ParseElements(s, j, <<>>)
        ELSE IF c = "\"" THEN ParseString(s, i)
        ELSE IF c = "-" \/ IsDigit(c) THEN ParseNumber(s, i)
        ELSE IF MatchAt(s, i, "true") THEN ParseOk(JLit("true"), i + 4)
        ELSE IF MatchAt(s, i, "false") THEN ParseOk(JLit("false"), i + 5)
        ELSE IF MatchAt(s, i, "null") THEN ParseOk(JLit("null"), i + 4)
        ELSE ParseFail(i)

\* json.loads(s): [ok |-> FALSE] stands for json.JSONDecodeError
json_loads(s) ==
    LET r == ParseValue(s, SkipWs(s, 1))
    IN  IF r.ok /\ SkipWs(s, r.pos) = Len(s) + 1
        THEN [ok |-> TRUE, val |-> r.val]
        ELSE [ok |-> FALSE, val |-> JLit("null")]

(***************************************************************************)
(* The fixed results of the source.                                        *)
(***************************************************************************)
Strs(ws) == JArr([i \in 1..Len(ws) |-> JStr(Chars(ws[i]))])

Dimension(score, comments) == JObj([score |-> JInt(score), comments |-> Strs(comments)])

\* _get_default_evaluation
get_default_evaluation ==
    JObj([
        score |-> JInt(80),
        summary |-> JStr(Chars("good overall match, has the core skills and experience")),
        detailed_analysis |-> JObj([
            qualification_match |-> Dimension(85,
                <<"education fits", "years of experience fit", "has the core skills">>),
            skill_match |-> Dimension(75,
                <<"masters the main stack", "lacks some newer technologies">>),
            experience_quality |-> Dimension(80,
                <<"has projects in the industry", "took part in mid-size projects">>),
            potential |-> Dimension(85,
                <<"keeps learning", "some open source contributions">>)]),
        strengths |-> Strs(<<"has the required stack", "has related projects", "degree fits">>),
        weaknesses |-> Strs(<<"no well-known employer", "projects could be more detailed">>),
        recommendations |-> Strs(<<"add figures", "state skill levels", "improve layout">>),
        hr_interview_focus |-> Strs(<<"duties and contributions", "depth and problem solving">>)])

\* the dict of lines 188-214, built when json.loads raised JSONDecodeError
parse_failure_evaluation(response_text) ==
    JObj([
        score |-> JInt(75),
        summary |-> JStr(Chars("could not parse the model response")),
        detailed_analysis |-> JObj([
            qualification_match |-> Dimension(80, <<"model was called, response format unexpected">>),
            skill_match |-> Dimension(70, <<"check the model output format">>),
            experience_quality |-> Dimension(75, <<"adjust the prompt for structured output">>),
            potential |-> Dimension(85, <<"candidate shows learning ability and potential">>)]),
        strengths |-> Strs(<<"model was called">>),
        weaknesses |-> Strs(<<"response format unexpected">>),
        recommendations |-> Strs(<<"check the model output format">>),
        hr_interview_focus |-> Strs(<<"look at the output format problem">>),
        raw_response |-> JStr(response_text)])

(***************************************************************************)
(* What a call does: it returns a value or raises an exception.            *)
(***************************************************************************)
Return(val) == [kind |-> "return", val |-> val]
Raise(name) == [kind |-> "raise", val |-> name]

(***************************************************************************)
(* call_local_model.                                                       *)
(***************************************************************************)
\* clean_response without the removal of the closing fence (lines 181-182)
clean_response_keeps_closing_fence(response_text) ==
    LET c0 == strip(response_text)
        c1 == IF startswith(c0, FenceJson) THEN SliceFrom(c0, 7) ELSE c0
        c2 == IF startswith(c1, Fence) THEN SliceFrom(c1, 3) ELSE c1
    IN  c2

\* lines 176-182
clean_response(response_text) ==
    LET c0 == strip(response_text)
        c1 == IF startswith(c0, FenceJson) THEN SliceFrom(c0, 7) ELSE c0
        c2 == IF startswith(c1, Fence) THEN SliceFrom(c1, 3) ELSE c1
        c3 == IF endswith(c2, Fence) THEN SliceDropLast(c2, 3) ELSE c2
    IN  c3

\* parse_response keeping the cleaned text, not the original, as raw_response
parse_response_keeps_cleaned_text(response_text) ==
    LET parsed == json_loads(clean_response(response_text))
    IN  IF parsed.ok
        THEN Return(parsed.val)
        ELSE Return(parse_failure_evaluation(clean_response(response_text)))

\* lines 171-214: the response text is cleaned and parsed
parse_response(response_text) ==
    LET parsed == json_loads(clean_response(response_text))
    IN  IF parsed.ok
        THEN Return(parsed.val)
        ELSE Return(parse_failure_evaluation(response_text))

\* What ollama.generate does in a run: it raises, it returns an object
\* without a usable 'response' text, or it returns a response text.
\* payload, open and close record how the text was put together.
Reply(status, text, payload, open, close) ==
    [status |-> status, text |-> text, payload |-> payload, open |-> open, close |-> close]

NoReply == Reply("none", <<>>, "none", "none", FALSE)

\* call_local_model without the handler of lines 219-221
call_local_model_without_except(p, installed, reply) ==
    IF "ollama" \notin installed THEN Return(get_default_evaluation)
    ELSE IF reply.status = "raise" THEN Raise("ResponseError")
    ELSE IF reply.status = "badreply" THEN Raise("KeyError")
    ELSE parse_response(reply.text)

\* lines 158-221
call_local_model(p, installed, reply) ==
    IF "ollama" \notin installed THEN Return(get_default_evaluation)
    ELSE IF reply.status = "raise" THEN Return(get_default_evaluation)
    ELSE IF reply.status = "badreply" THEN Return(get_default_evaluation)
    ELSE parse_response(reply.text)

(***************************************************************************)
(* Files and read_file_content.  A file is its path, whether the path      *)
(* exists, the fault (if any) that reading or parsing it meets, and its    *)
(* text units: the lines of a text file, the paragraphs of a docx          *)
(* document, the extracted texts of the pages of a pdf document.           *)
(***************************************************************************)
File(path, exists, fault, units) ==
    [path |-> path, exists |-> exists, fault |-> fault, units |-> units]

LowerMap ==
    "D" :> "d" @@ "O" :> "o" @@ "C" :> "c" @@ "X" :> "x" @@
    "P" :> "p" @@ "F" :> "f" @@ "T" :> "t"

\* str.lower()
lower(s) == [i \in 1..Len(s) |-> IF s[i] \in DOMAIN LowerMap THEN LowerMap[s[i]] ELSE s[i]]

RECURSIVE LastDot(_, _)
LastDot(s, i) == IF i = 0 \/ s[i] = "." THEN i ELSE LastDot(s, i - 1)

\* os.path.splitext(p)[1] of a path without directory part: the text from
\* the last dot on, empty when there is no dot or only a leading one
splitext(p) ==
    LET d == LastDot(p, Len(p))
    IN  IF d <= 1 THEN <<>> ELSE SubSeq(p, d, Len(p))

RECURSIVE join(_, _)
join(sep, units) ==
    IF units = <<>> THEN <<>>
    ELSE IF Len(units) = 1 THEN units[1]
    ELSE units[1] \o sep \o join(sep, Tail(units))

\* line 32 and line 42: the text returned when the parser cannot be imported
missing_library_text(ext, package) ==
    Chars("cannot handle ") \o ext \o Chars(" files, please install ") \o Chars(package)

\* line 48: the text returned for any other exception e, with str(e)
read_error_text(message) == Chars("error reading file: ") \o Chars(message)

\* open(file_path, 'r', encoding='utf-8') and f.read(): lines 25-26, 45-46
read_text(file) ==
    IF file.fault # "none" THEN Raise(file.fault)
    ELSE Return(join(<<"\n">>, file.units))

\* read_docx joining the paragraphs without the newline of line 30
read_docx_without_newline(file, ext, installed) ==
    IF "docx" \notin installed THEN Return(missing_library_text(ext, "python-docx"))
    ELSE IF file.fault # "none" THEN Raise(file.fault)
    ELSE Return(join(<<>>, file.units))

\* lines 28-32
read_docx(file, ext, installed) ==
    IF "docx" \notin installed THEN Return(missing_library_text(ext, "python-docx"))
    ELSE IF file.fault # "none" THEN Raise(file.fault)
    ELSE Return(join(<<"\n">>, file.units))

\* lines 34-42
read_pdf(file, ext, installed) ==
    IF "PyPDF2" \notin installed THEN Return(missing_library_text(ext, "PyPDF2"))
    ELSE IF file.fault # "none" THEN Raise(file.fault)
    ELSE Return(join(<<>>, file.units))

\* lines 24-46: the body of the try statement
read_by_extension(file, installed) ==
    LET ext == splitext(lower(file.path))
    IN  IF ext = Chars(".txt") THEN read_text(file)
        ELSE IF ext = Chars(".docx") THEN read_docx(file, ext, installed)
        ELSE IF ext = Chars(".pdf") THEN read_pdf(file, ext, installed)
        ELSE read_text(file)

\* read_file_content with the existence check inside the try statement
read_file_content_check_inside_try(file, installed) ==
    LET r == read_by_extension(file, installed)
    IN  IF ~file.exists THEN Return(read_error_text("FileNotFoundError"))
        ELSE IF r.kind = "raise" THEN Return(read_error_text(r.val))
        ELSE r

\* read_file_content catching OSError only at line 47
read_file_content_catches_oserror_only(file, installed) ==
    LET r == read_by_extension(file, installed)
    IN  IF ~file.exists THEN Raise("FileNotFoundError")
        ELSE IF r.kind = "raise" /\ r.val = "PermissionError" THEN Return(read_error_text(r.val))
        ELSE r

\* lines 17-48
read_file_content(file, installed) ==
    LET r == read_by_extension(file, installed)
    IN  IF ~file.exists THEN Raise("FileNotFoundError")
        ELSE IF r.kind = "raise" THEN Return(read_error_text(r.val))
        ELSE r

(***************************************************************************)
(* generate_prompt: the fixed template with the two texts embedded, then   *)
(* str.strip().  A TEMPLATE token stands for a fixed segment of the        *)
(* template.                                                               *)
(***************************************************************************)
generate_prompt(jd_t, resume_t) ==
    strip(<<"\n", " ", "TEMPLATE_ROLE_AND_TASK", "\n", " ">> \o jd_t
          \o <<"\n", " ", "TEMPLATE_RESUME_HEADING", "\n", " ">> \o resume_t
          \o <<"\n", " ", "TEMPLATE_OUTPUT_SCHEMA", "\n", " ">>)

(***************************************************************************)
(* The inputs of the model.                                                *)
(***************************************************************************)
\* the packages the module imports: lines 3, 4, 6 and 159
Libs == {"PyPDF2", "docx", "dotenv", "ollama"}

Paths ==
    {Chars("jd.txt"), Chars("cv.DOCX"), Chars("cv.docx"), Chars("cv.pdf"),
     Chars("cv.md"), Chars("cv")}

IsParsedFormat(path) == splitext(lower(path)) \in {Chars(".docx"), Chars(".pdf")}

\* the faults a file of this path can meet: it cannot be opened, its bytes
\* are not UTF-8 (text), it is not a document of its format (docx, pdf)
FaultsOf(path) ==
    {"PermissionError"} \cup
    (IF IsParsedFormat(path) THEN {"BadFormatError"} ELSE {"UnicodeDecodeError"})

UnitTexts == {<<>>, <<"a">>}

SeqsUpTo(S, n) == UNION {[1..k -> S] : k \in 0..n}

MissingFiles == {File(p, FALSE, "none", <<>>) : p \in Paths}

FaultyFiles == UNION {{File(p, TRUE, f, <<>>) : f \in FaultsOf(p)} : p \in Paths}

GoodFiles == {File(p, TRUE, "none", u) : p \in Paths, u \in SeqsUpTo(UnitTexts, MaxUnits)}

Files == MissingFiles \cup FaultyFiles \cup GoodFiles

\* the files of the whole-program specification: empty, or one unit of text
PipelineFiles == {f \in Files : f.units \in {<<>>, <<(<<"a">>)>>}}

\* The payloads a response text is built around.  full, basic and fullraw
\* match the result schema (detailed variant, basic variant, detailed with
\* the optional raw_response); partial .. array are JSON that does not;
\* prose, open and empty are not JSON.
PayloadText ==
    [full |->
        Chars("{\"score\": 90, \"summary\": \"s\",") \o <<"\n">>
        \o Chars(" \"detailed_analysis\": {")
        \o Chars("\"qualification_match\": {\"score\": 81, \"comments\": [\"q\"]}, ")
        \o Chars("\"skill_match\": {\"score\": 0, \"comments\": [\"k\", \"l\"]}, ")
        \o Chars("\"experience_quality\": {\"score\": 100, \"comments\": [\"e\"]}, ")
        \o Chars("\"potential\": {\"score\": 7, \"comments\": [\"p\"]}},") \o <<"\n">>
        \o Chars(" \"strengths\": [\"a\", \"b\"], \"weaknesses\": [\"w\"],")
        \o Chars(" \"recommendations\": [\"r\"], \"hr_interview_focus\": [\"h\"]}"),
     basic |->
        Chars("{\"score\":55,\"summary\":\"s\",\"strengths\":[\"a\"],")
        \o Chars("\"weaknesses\":[\"w\"],\"recommendations\":[\"r\"]}"),
     fullraw |->
        Chars("{\"score\": 90, \"summary\": \"s\", \"detailed_analysis\": {")
        \o Chars("\"qualification_match\": {\"score\": 81, \"comments\": [\"q\"]}, ")
        \o Chars("\"skill_match\": {\"score\": 0, \"comments\": [\"k\"]}, ")
        \o Chars("\"experience_quality\": {\"score\": 100, \"comments\": [\"e\"]}, ")
        \o Chars("\"potential\": {\"score\": 7, \"comments\": [\"p\"]}},")
        \o Chars(" \"strengths\": [\"a\"], \"weaknesses\": [\"w\"],")
        \o Chars(" \"recommendations\": [\"r\"], \"hr_interview_focus\": [\"h\"],")
        \o Chars(" \"raw_response\": \"x\"}"),
     partial |-> Chars("{\"score\": 90}"),
     badscore |-> Chars("{\"score\": 150, \"strengths\": [\"a\"]}"),
     type |-> Chars("{\"score\": \"high\"}"),
     emptylist |-> Chars("{\"score\": 90, \"strengths\": []}"),
     array |-> Chars("[1]"),
     prose |-> Chars("not json"),
     open |-> Chars("{\"score\": 90"),
     empty |-> <<>>]

Payloads == DOMAIN PayloadText

SchemaPayloads == {"full", "basic", "fullraw"}

NonJsonPayloads == {"prose", "open", "empty"}

\* The structure each schema payload encodes, written out by hand.
PayloadStructure ==
    [full |->
        JObj([score |-> JInt(90), summary |-> JStr(<<"s">>),
              detailed_analysis |-> JObj([
                  qualification_match |-> Dimension(81, <<"q">>),
                  skill_match |-> Dimension(0, <<"k", "l">>),
                  experience_quality |-> Dimension(100, <<"e">>),
                  potential |-> Dimension(7, <<"p">>)]),
              strengths |-> Strs(<<"a", "b">>), weaknesses |-> Strs(<<"w">>),
              recommendations |-> Strs(<<"r">>), hr_interview_focus |-> Strs(<<"h">>)]),
     basic |->
        JObj([score |-> JInt(55), summary |-> JStr(<<"s">>),
              strengths |-> Strs(<<"a">>), weaknesses |-> Strs(<<"w">>),
              recommendations |-> Strs(<<"r">>)]),
     fullraw |->
        JObj([score |-> JInt(90), summary |-> JStr(<<"s">>),
              detailed_analysis |-> JObj([
                  qualification_match |-> Dimension(81, <<"q">>),
                  skill_match |-> Dimension(0, <<"k">>),
                  experience_quality |-> Dimension(100, <<"e">>),
                  potential |-> Dimension(7, <<"p">>)]),
              strengths |-> Strs(<<"a">>), weaknesses |-> Strs(<<"w">>),
              recommendations |-> Strs(<<"r">>), hr_interview_focus |-> Strs(<<"h">>),
              raw_response |-> JStr(<<"x">>)])]

\* whitespace runs of at most MaxPad characters
Pads == SeqsUpTo({" ", "\n"}, MaxPad)

OpenText(open) ==
    IF open = "json" THEN FenceJson ELSE IF open = "plain" THEN Fence ELSE <<>>

CloseText(close) == IF close THEN Fence ELSE <<>>

\* outer pad, opening fence, inner pad, payload, inner pad, closing fence, outer pad
Wrap(outer, open, in1, payload, in2, close) ==
    outer \o OpenText(open) \o in1 \o PayloadText[payload] \o in2 \o CloseText(close) \o outer

TextReplies ==
    {Reply("ok", Wrap(outer, open, in1, payload, in2, close), payload, open, close) :
        outer \in Pads, open \in {"none", "json", "plain"}, in1 \in Pads,
        payload \in Payloads, in2 \in Pads, close \in BOOLEAN}

PipelinePayloads == {"full", "fullraw", "badscore", "prose"}

\* the replies of the whole-program specification: a failed call, a reply
\* without response text, and each pipeline payload bare and in a json fence
PipelineReplies ==
    {Reply("raise", <<>>, "none", "none", FALSE), Reply("badreply", <<>>, "none", "none", FALSE)}
    \cup {Reply("ok", Wrap(<<>>, "none", <<>>, payload, <<>>, FALSE), payload, "none", FALSE) :
            payload \in PipelinePayloads}
    \cup {Reply("ok", Wrap(<<>>, "json", <<"\n">>, payload, <<"\n">>, TRUE), payload, "json", TRUE) :
            payload \in PipelinePayloads}

(***************************************************************************)
(* The program as a state machine.                                         *)
(***************************************************************************)
NoResult == [t |-> "none", v |-> <<>>]

NoExc == [type |-> "none", what |-> "none"]

Exc(type, what) == [type |-> type, what |-> what]

\* the first of the imports of lines 3, 4 and 6 that fails
FirstMissingImport ==
    IF "PyPDF2" \notin libs THEN "PyPDF2"
    ELSE IF "docx" \notin libs THEN "docx"
    ELSE IF "dotenv" \notin libs THEN "dotenv"
    ELSE "none"

Locals0 ==
    /\ jd_text = <<>>
    /\ resume_text = <<>>
    /\ prompt = <<>>
    /\ response = NoReply
    /\ result = NoResult
    /\ exc = NoExc
    /\ log = <<>>

\* the interpreter is about to run the module as a script
Init ==
    /\ libs \in SUBSET Libs
    /\ jd \in PipelineFiles
    /\ resume \in PipelineFiles
    /\ pc = "load"
    /\ Locals0

\* lines 1-8: the top-level imports run before anything else of the module
LoadModule ==
    /\ pc = "load"
    /\ pc' = IF FirstMissingImport = "none" THEN "main" ELSE "crashed"
    /\ exc' = IF FirstMissingImport = "none" THEN exc
              ELSE Exc("ModuleNotFoundError", FirstMissingImport)
    /\ UNCHANGED <<libs, jd, resume, jd_text, resume_text, prompt, response, result, log>>

\* lines 303-318 and 291-292: main builds the evaluator and calls evaluate
Main ==
    /\ pc = "main"
    /\ pc' = "read_jd"
    /\ log' = Append(log, "evaluate")
    /\ UNCHANGED <<libs, jd, resume, jd_text, resume_text, prompt, response, result, exc>>

\* line 57, in extract_text_from_files
ExtractJD ==
    /\ pc = "read_jd"
    /\ \E r \in {read_file_content(jd, libs)} :
           /\ jd_text' = IF r.kind = "return" THEN r.val ELSE jd_text
           /\ exc' = IF r.kind = "return" THEN exc ELSE Exc(r.val, "jd_path")
           /\ pc' = IF r.kind = "return" THEN "read_resume" ELSE "raised"
    /\ log' = Append(log, "read_jd")
    /\ UNCHANGED <<libs, jd, resume, resume_text, prompt, response, result>>

\* lines 58-59, in extract_text_from_files
ExtractResume ==
    /\ pc = "read_resume"
    /\ \E r \in {read_file_content(resume, libs)} :
           /\ resume_text' = IF r.kind = "return" THEN r.val ELSE resume_text
           /\ exc' = IF r.kind = "return" THEN exc ELSE Exc(r.val, "resume_path")
           /\ pc' = IF r.kind = "return" THEN "generate_prompt" ELSE "raised"
    /\ log' = Append(log, "read_resume")
    /\ UNCHANGED <<libs, jd, resume, jd_text, prompt, response, result>>

\* lines 294-295
GeneratePrompt ==
    /\ pc = "generate_prompt"
    /\ prompt' = generate_prompt(jd_text, resume_text)
    /\ pc' = "call_local_model"
    /\ log' = Append(log, "generate_prompt")
    /\ UNCHANGED <<libs, jd, resume, jd_text, resume_text, response, result, exc>>

\* the calls call_local_model makes: ollama.generate when the client could
\* be imported, the parsing of the response text when generate returned one
ModelCalls(installed, reply) ==
    IF "ollama" \notin installed THEN <<>>
    ELSE IF reply.status = "ok" THEN <<"ollama.generate", "json.loads">>
    ELSE <<"ollama.generate">>

\* CallLocalModel calling the model again after a failed call
CallLocalModel_retries ==
    /\ pc = "call_local_model"
    /\ \E reply \in PipelineReplies :
        /\ ("ollama" \notin libs) => reply.status = "raise"
        /\ \E r \in {call_local_model(prompt, libs, reply)} :
               /\ result' = IF r.kind = "return" THEN r.val ELSE result
               /\ exc' = exc
               /\ pc' = IF "ollama" \in libs /\ reply.status = "raise"
                        THEN "call_local_model" ELSE "returned"
        /\ response' = IF "ollama" \in libs THEN reply ELSE NoReply
        /\ log' = log \o ModelCalls(libs, reply)
    /\ UNCHANGED <<libs, jd, resume, jd_text, resume_text, prompt>>

\* lines 297-300: the one call of call_local_model and evaluate's return
CallLocalModel ==
    /\ pc = "call_local_model"
    /\ \E reply \in PipelineReplies :
        /\ ("ollama" \notin libs) => reply.status = "raise"
        /\ \E r \in {call_local_model(prompt, libs, reply)} :
               /\ result' = IF r.kind = "return" THEN r.val ELSE result
               /\ exc' = IF r.kind = "return" THEN exc ELSE Exc(r.val, "call_local_model")
               /\ pc' = IF r.kind = "return" THEN "returned" ELSE "raised"
        /\ response' = IF "ollama" \in libs THEN reply ELSE NoReply
        /\ log' = log \o ModelCalls(libs, reply)
    /\ UNCHANGED <<libs, jd, resume, jd_text, resume_text, prompt>>

\* lines 318-321: main prints the result as JSON
MainPrint ==
    /\ pc = "returned"
    /\ pc' = "printed"
    /\ UNCHANGED <<libs, jd, resume, jd_text, resume_text, prompt, response, result, exc, log>>

\* lines 323-324: main catches the exception evaluate raised and prints it
MainExcept ==
    /\ pc = "raised"
    /\ pc' = "reported"
    /\ UNCHANGED <<libs, jd, resume, jd_text, resume_text, prompt, response, result, exc, log>>

Next ==
    \/ LoadModule
    \/ Main
    \/ ExtractJD
    \/ ExtractResume
    \/ GeneratePrompt
    \/ CallLocalModel
    \/ MainPrint
    \/ MainExcept

Spec == Init /\ [][Next]_vars

(***************************************************************************)
(* read_file_content alone, on every file of Files, in an interpreter     *)
(* that loaded the module.                                                 *)
(***************************************************************************)
InitExtract ==
    /\ libs \in {Libs, Libs \ {"ollama"}}
    /\ jd \in Files
    /\ resume \in {File(Chars("cv.pdf"), TRUE, "none", <<>>)}
    /\ pc = "read_file"
    /\ Locals0

\* lines 17-48: one call of read_file_content(self.jd_path)
ReadFileContent ==
    /\ pc = "read_file"
    /\ \E r \in {read_file_content(jd, libs)} :
           /\ jd_text' = IF r.kind = "return" THEN r.val ELSE jd_text
           /\ exc' = IF r.kind = "return" THEN exc ELSE Exc(r.val, "jd_path")
           /\ pc' = IF r.kind = "return" THEN "read_returned" ELSE "read_raised"
    /\ log' = Append(log, "read_jd")
    /\ UNCHANGED <<libs, jd, resume, resume_text, prompt, response, result>>

NextExtract == ReadFileContent

SpecExtract == InitExtract /\ [][NextExtract]_vars

(***************************************************************************)
(* The handling of a response text alone (lines 171-214), on every text    *)
(* of TextReplies, in a run whose ollama.generate call returned it.        *)
(***************************************************************************)
InitNormalize ==
    /\ libs = Libs
    /\ jd \in {File(Chars("jd.txt"), TRUE, "none", <<>>)}
    /\ resume \in {File(Chars("cv.pdf"), TRUE, "none", <<>>)}
    /\ pc = "generated"
    /\ jd_text = <<>>
    /\ resume_text = <<>>
    /\ prompt = generate_prompt(<<>>, <<>>)
    /\ response \in TextReplies
    /\ result = NoResult
    /\ exc = NoExc
    /\ log = <<"evaluate", "read_jd", "read_resume", "generate_prompt", "ollama.generate">>

\* lines 171-214 and 298-300
ParseResponse ==
    /\ pc = "generated"
    /\ \E r \in {call_local_model(prompt, libs, response)} :
           /\ result' = IF r.kind = "return" THEN r.val ELSE result
           /\ exc' = IF r.kind = "return" THEN exc ELSE Exc(r.val, "call_local_model")
           /\ pc' = IF r.kind = "return" THEN "returned" ELSE "raised"
    /\ log' = Append(log, "json.loads")
    /\ UNCHANGED <<libs, jd, resume, jd_text, resume_text, prompt, response>>

NextNormalize == ParseResponse

SpecNormalize == InitNormalize /\ [][NextNormalize]_vars

(***************************************************************************)
(* Properties.                                                             *)
(***************************************************************************)
Returned == pc \in {"returned", "printed"}

Raised == pc \in {"raised", "reported"}

BothExist == jd.exists /\ resume.exists

\* the ollama client cannot be imported, or ollama.generate raised
ModelUnreachable == "ollama" \notin libs \/ response.status = "raise"

\* the model returned a text that is not JSON once cleaned
Unparseable ==
    /\ "ollama" \in libs
    /\ response.status = "ok"
    /\ \/ response.payload \in NonJsonPayloads
       \/ ~json_loads(clean_response(response.text)).ok

IsObj(x) == x.t = "obj"

Has(x, key) == IsObj(x) /\ key \in DOMAIN x.v

\* C1: when both paths exist and the model cannot be reached, evaluate does
\* not raise and returns exactly the default evaluation, of score 80,
\* whatever the two files hold and however their extraction went.
C1_UnreachableModelGivesDefault ==
    (BothExist /\ ModelUnreachable /\ (Returned \/ Raised)) =>
        /\ Returned
        /\ result = get_default_evaluation
        /\ result.v.score = JInt(80)

C1_Witness ==
    /\ pc = "printed"
    /\ "ollama" \in libs
    /\ response.status = "raise"
    /\ jd.fault = "PermissionError"
    /\ resume.fault = "none"
    /\ result.v.score.v = 80

\* C2: when the model returned a text that is not JSON once cleaned, the
\* handling of the response does not raise and returns the diagnostic
\* evaluation: score 75 and raw_response equal to the response text as the
\* model gave it, before strip() and before the removal of the fences.
C2_UnparseableGivesDiagnostic ==
    (pc # "generated" /\ Unparseable) =>
        /\ pc = "returned"
        /\ Has(result, "score") /\ result.v.score = JInt(75)
        /\ Has(result, "raw_response") /\ result.v.raw_response = JStr(response.text)

C2_Witness ==
    /\ pc = "returned"
    /\ response.payload = "prose"
    /\ response.open = "json"
    /\ response.close
    /\ strip(response.text) # response.text
    /\ result.v.score.v = 75
    /\ result.v.raw_response.v = response.text

\* the three forms the claim names: bare, json fence, plain fence
ClaimedForm ==
    \/ response.open = "none" /\ ~response.close
    \/ response.open = "json" /\ response.close
    \/ response.open = "plain" /\ response.close

RoundTripCase ==
    /\ pc = "returned"
    /\ response.status = "ok"
    /\ response.payload \in SchemaPayloads
    /\ ClaimedForm

\* C3 as stated: a schema payload, bare or fenced, with whitespace around
\* it, comes back as exactly the structure it encodes, and cleaning the
\* cleaned text once more changes nothing.
C3_RoundTripAndIdempotent ==
    RoundTripCase =>
        /\ result = PayloadStructure[response.payload]
        /\ clean_response(clean_response(response.text)) = clean_response(response.text)

\* C3, amended: a schema payload, bare or fenced, with whitespace around
\* it, comes back as exactly the structure it encodes; cleaning the cleaned
\* text once more removes no fence and nothing of the payload: it only
\* trims the whitespace left between the fences and the payload, and the
\* text still parses to the same structure.
C3_RoundTripAndTrimOnly ==
    RoundTripCase =>
        /\ result = PayloadStructure[response.payload]
        /\ clean_response(clean_response(response.text))
               = strip(clean_response(response.text))
        /\ strip(clean_response(response.text)) = PayloadText[response.payload]
        /\ json_loads(clean_response(clean_response(response.text))).ok
        /\ json_loads(clean_response(clean_response(response.text))).val
               = PayloadStructure[response.payload]

C3_Witness ==
    /\ RoundTripCase
    /\ response.payload = "full"
    /\ response.open = "plain"
    /\ strip(response.text) # response.text
    /\ clean_response(response.text) # strip(clean_response(response.text))
    /\ result = PayloadStructure["full"]

\* C4: evaluate ends without a result only by the FileNotFoundError of a
\* path that does not exist; when both paths exist it never raises, and in
\* every failure it absorbs the result is one of the two fixed structures.
C4_OnlyNotFoundPropagates ==
    /\ Raised =>
        /\ exc.type = "FileNotFoundError"
        /\ exc.what = "jd_path" => ~jd.exists
        /\ exc.what = "resume_path" => jd.exists /\ ~resume.exists
        /\ exc.what \in {"jd_path", "resume_path"}
    /\ BothExist => ~Raised
    /\ (BothExist /\ Returned /\ (ModelUnreachable \/ response.status = "badreply")) =>
        result = get_default_evaluation
    /\ (BothExist /\ Returned /\ Unparseable) =>
        result = parse_failure_evaluation(response.text)

C4_Witness ==
    /\ pc = "printed"
    /\ jd.fault = "UnicodeDecodeError"
    /\ resume.fault = "BadFormatError"
    /\ response.payload = "prose"
    /\ IsObj(result)
    /\ result.v.score.v = 75

IsScore(x) == x.t = "int" /\ x.v >= 0 /\ x.v <= 100

IsStringList(x) ==
    /\ x.t = "arr"
    /\ Len(x.v) > 0
    /\ \A i \in 1..Len(x.v) : x.v[i].t = "str"

ListFields == {"strengths", "weaknesses", "recommendations", "hr_interview_focus"}

SubScoresInRange(x) ==
    Has(x, "detailed_analysis") =>
        /\ IsObj(x.v.detailed_analysis)
        /\ \A d \in DOMAIN x.v.detailed_analysis.v :
            /\ Has(x.v.detailed_analysis.v[d], "score")
            /\ IsScore(x.v.detailed_analysis.v[d].v.score)

WellFormed(x) ==
    /\ Has(x, "score")
    /\ IsScore(x.v.score)
    /\ SubScoresInRange(x)
    /\ \A f \in ListFields : Has(x, f) => IsStringList(x.v[f])

\* C5: every result evaluate returns has an integer score in 0..100, every
\* sub-score of detailed_analysis is an integer in 0..100, and each of the
\* four list fields, when present, is a non-empty list of strings.
C5_ResultWellFormed == Returned => WellFormed(result)

\* C6: a result has the raw_response field only when the response text
\* could not be parsed: never the default result, never a parsed response.
C6_RawResponseOnlyOnFallback ==
    (Returned /\ Has(result, "raw_response")) => Unparseable

\* the package that reads the file's format
ParserOf(path) == IF splitext(lower(path)) = Chars(".docx") THEN "docx" ELSE "PyPDF2"

NeedsMissingParser(file) ==
    /\ file.exists
    /\ IsParsedFormat(file.path)
    /\ ParserOf(file.path) \notin libs

\* C7: when the docx or pdf library is not installed and an existing .docx
\* or .pdf file is to be read, the program does not crash on the missing
\* library: it goes on to the model call.
C7_MissingParserNeverCrashes ==
    ("dotenv" \in libs /\ (NeedsMissingParser(jd) \/ NeedsMissingParser(resume))) =>
        pc # "crashed"

\* C8: read_file_content on a path that does not exist raises
\* FileNotFoundError, whatever the extension, and returns no text.
C8_MissingPathRaisesNotFound ==
    (pc # "read_file" /\ ~jd.exists) =>
        /\ pc = "read_raised"
        /\ exc = Exc("FileNotFoundError", "jd_path")
        /\ jd_text = <<>>

C8_Witness ==
    /\ pc = "read_raised"
    /\ ~jd.exists
    /\ splitext(lower(jd.path)) = Chars(".docx")
    /\ exc.type = "FileNotFoundError"

SuccessfulRead == pc = "read_returned" /\ jd.fault = "none"

FailedRead == pc = "read_returned" /\ jd.fault # "none"

\* C9 as stated: the text of a successful extraction is never empty.
C9_SuccessNeverEmpty == SuccessfulRead => jd_text # <<>>

RECURSIVE TotalLen(_)
TotalLen(units) == IF units = <<>> THEN 0 ELSE Len(Head(units)) + TotalLen(Tail(units))

\* one newline after each line of a text file or paragraph of a docx
\* document but the last; the pages of a pdf document are not separated
SeparatorLen(file) == IF splitext(lower(file.path)) = Chars(".pdf") THEN 0 ELSE 1

\* where unit i of the file starts in the text of the document, less one
Offset(file, i) == TotalLen(SubSeq(file.units, 1, i - 1)) + (i - 1) * SeparatorLen(file)

\* C9, amended: the text of a successful extraction is the text of the
\* document: its units in order, a newline between two lines or two
\* paragraphs, nothing else; so it is empty exactly when the document holds
\* no character.  The text of a failed extraction is never empty: it is
\* the error string.
C9_SuccessIsDocumentText ==
    /\ SuccessfulRead =>
        /\ Len(jd_text) = IF jd.units = <<>> THEN 0 ELSE Offset(jd, Len(jd.units) + 1) - SeparatorLen(jd)
        /\ \A i \in 1..Len(jd.units) :
            /\ SubSeq(jd_text, Offset(jd, i) + 1, Offset(jd, i) + Len(jd.units[i])) = jd.units[i]
            /\ (i > 1 /\ SeparatorLen(jd) = 1) => jd_text[Offset(jd, i)] = "\n"
        /\ jd_text = <<>> <=> (TotalLen(jd.units) = 0 /\ (Len(jd.units) <= 1 \/ SeparatorLen(jd) = 0))
    /\ FailedRead =>
        /\ jd_text # <<>>
        /\ startswith(jd_text, Chars("error reading file: "))

C9_Witness ==
    /\ SuccessfulRead
    /\ splitext(lower(jd.path)) = Chars(".txt")
    /\ jd.units = <<>>
    /\ jd_text = <<>>

\* the calls of a run that goes all the way
FullOrder ==
    <<"evaluate", "read_jd", "read_resume", "generate_prompt", "ollama.generate", "json.loads">>

IsPrefix(a, b) == Len(a) <= Len(b) /\ SubSeq(b, 1, Len(a)) = a

Called(what) == \E i \in 1..Len(log) : log[i] = what

\* C10: the calls of a run are made in the order read JD, read resume,
\* compose prompt, invoke model, parse; the model is invoked at most once,
\* never before both documents were read, not at all when a path does not
\* exist, and the resume is not read when the JD path does not exist.
C10_StepsInOrder ==
    /\ IsPrefix(log, FullOrder)
    /\ Cardinality({i \in 1..Len(log) : log[i] = "ollama.generate"}) <= 1
    /\ Called("ollama.generate") => (Called("read_jd") /\ Called("read_resume") /\ BothExist)
    /\ ~jd.exists => ~Called("read_resume")
    /\ (Returned \/ Raised) => (Called("ollama.generate") <=> (BothExist /\ "ollama" \in libs))

C10_Witness ==
    /\ pc = "printed"
    /\ log = FullOrder
    /\ response.payload = "prose"

====
